---- MODULE Spec2Model ----
(***************************************************************************)
(* Model of od/inputters/inputter.py: the cached loader get_data and the   *)
(* instance builder data_process.                                          *)
(*                                                                         *)
(* Python lists are sequences (0-based index i is element i+1), a dict     *)
(* that is iterated is a sequence of (name, value) records in insertion    *)
(* order, a dict that is only indexed is a function.                       *)
(***************************************************************************)
EXTENDS Integers, Sequences, FiniteSets, TLC

VARIABLES
    \* ---- data_process: arguments
    tokenizer, max_history, with_eos, lm_labels, data,
    \* ---- data_process: control and locals
    pc, di, dj, bos, eos, speaker1, speaker2,
    dialog, history, resposne, sequence, instance, bound,
    datasets, result,
    \* ---- get_data: the file system, and the last call with its outcome
    rawfiles, cachefiles, call, ret

procvars == <<tokenizer, max_history, with_eos, lm_labels, data,
              pc, di, dj, bos, eos, speaker1, speaker2,
              dialog, history, resposne, sequence, instance, bound,
              datasets, result>>
loadvars == <<rawfiles, cachefiles, call, ret>>
vars == <<procvars, loadvars>>

-----------------------------------------------------------------------------
(* Bounds of the model *)

MaxTurns == 3       \* utterances in a dialogue
MaxUttLen == 2      \* token ids in an utterance
MaxHistory == 2     \* args.max_history
MaxDialogs == 2     \* dialogues in a split
MaxStrLen == 1      \* characters in a raw utterance

-----------------------------------------------------------------------------
(* Python list primitives *)

Min(a, b) == IF a < b THEN a ELSE b

\* s[start:stop] with Python's clamping of negative and oversized bounds.
PySlice(s, start, stop) ==
    LET n == Len(s)
        Norm(i) == IF i < 0 THEN (IF i + n < 0 THEN 0 ELSE i + n)
                   ELSE (IF i > n THEN n ELSE i)
        a == Norm(start)
        b == Norm(stop)
    IN  IF a < b THEN SubSeq(s, a + 1, b) ELSE <<>>

\* s[i] raises IndexError unless -len(s) <= i < len(s).
IndexOkNoNegative(s, i) == 0 <= i /\ i < Len(s)
IndexOk(s, i) == -Len(s) <= i /\ i < Len(s)

PyIndex(s, i) == IF i < 0 THEN s[Len(s) + i + 1] ELSE s[i + 1]

\* [x] * n
Repeat(x, n) == [k \in 1..n |-> x]

RECURSIVE Chain(_)
Chain(seqs) == IF seqs = <<>> THEN <<>> ELSE Head(seqs) \o Chain(Tail(seqs))

RECURSIVE SumLen(_)
SumLen(seqs) == IF seqs = <<>> THEN 0 ELSE Len(Head(seqs)) + SumLen(Tail(seqs))

-----------------------------------------------------------------------------
(* The tokenizer collaborator: a type name and a vocabulary.  A token that *)
(* is not in the vocabulary converts to the unknown id.                    *)

SPECIAL_TOKENS == <<"[CLS]", "[SEP]", "[speaker1]", "[speaker2]">>

BertFull ==
    [type |-> "BertTokenizer", unk |-> 0,
     vocab |-> [t \in {"[CLS]", "[SEP]", "[speaker1]", "[speaker2]", "a", "b"} |->
                  CASE t = "[CLS]" -> 1 [] t = "[SEP]" -> 2
                    [] t = "[speaker1]" -> 5 [] t = "[speaker2]" -> 6
                    [] t = "a" -> 7 [] t = "b" -> 8]]

\* Same type, another vocabulary: no special tokens, other ids.
BertPlain ==
    [type |-> "BertTokenizer", unk |-> 0,
     vocab |-> [t \in {"a"} |-> 2]]

\* Another type: the speaker tokens are not in its vocabulary.
Gpt2Partial ==
    [type |-> "GPT2Tokenizer", unk |-> 3,
     vocab |-> [t \in {"[CLS]", "[SEP]", "a"} |->
                  CASE t = "[CLS]" -> 1 [] t = "[SEP]" -> 2 [] t = "a" -> 9]]

Tokenizers == {BertFull, BertPlain, Gpt2Partial}

\* tokenizer.tokenize(text): one token per character, whitespace dropped.
IsToken(c) == c # " "
TokenizeText(text) == SelectSeq(text, IsToken)

ConvertTokenToId(tok, t) == IF t \in DOMAIN tok.vocab THEN tok.vocab[t] ELSE tok.unk
ConvertTokensToIds(tok, ts) == [k \in 1..Len(ts) |-> ConvertTokenToId(tok, ts[k])]

-----------------------------------------------------------------------------
(* data_process, line by line *)

Ignore == -1

\* history = dialog[-2*args.max_history:-1]
HistoryWide(d, mh) == PySlice(d, -2 * mh - 1, -1)
History(d, mh) == PySlice(d, -2 * mh, -1)

\* sequence = [[bos]] + history + [resposne + ([eos] if with_eos else [])]
TurnsNoEos(b, e, h, r, we) == <<<<b>>>> \o h \o <<r>>
Turns(b, e, h, r, we) == <<<<b>>>> \o h \o <<r \o (IF we THEN <<e>> ELSE <<>>)>>

\* speaker2 if i % 2 else speaker1
SpeakerSwapped(i, s1, s2) == IF i % 2 # 0 THEN s1 ELSE s2
Speaker(i, s1, s2) == IF i % 2 # 0 THEN s2 ELSE s1

\* sequence = [sequence[0]] + [[speaker] + s for i, s in enumerate(sequence[1:])]
WithSpeakers(sq, s1, s2) ==
    LET rest == PySlice(sq, 1, Len(sq))
    IN  <<PyIndex(sq, 0)>> \o [k \in 1..Len(rest) |-> <<Speaker(k - 1, s1, s2)>> \o rest[k]]

\* instance["input_ids"] = list(chain(*sequence))
InputIds(sq) == Chain(sq)

\* instance["token_type_ids"] = [bos] + [speaker for i, s in enumerate(sequence[1:]) for _ in s]
TokenTypeIdsShifted(sq, b, s1, s2) ==
    LET rest == PySlice(sq, 1, Len(sq))
    IN  <<b>> \o Chain([k \in 1..Len(rest) |-> Repeat(Speaker(k, s1, s2), Len(rest[k]))])
TokenTypeIds(sq, b, s1, s2) ==
    LET rest == PySlice(sq, 1, Len(sq))
    IN  <<b>> \o Chain([k \in 1..Len(rest) |-> Repeat(Speaker(k - 1, s1, s2), Len(rest[k]))])

\* instance["lm_labels"] = [-1] * len(instance["input_ids"])
\* if lm_labels:
\*     instance["lm_labels"] = ([-1] * sum(len(s) for s in sequence[:-1])) + [-1] + sequence[-1][1:]
LmLabelsUnmasked(sq, ids, flag) ==
    IF flag
    THEN Repeat(Ignore, SumLen(PySlice(sq, 0, -1))) \o PyIndex(sq, -1)
    ELSE Repeat(Ignore, Len(ids))
LmLabelsAlways(sq, ids, flag) ==
    Repeat(Ignore, SumLen(PySlice(sq, 0, -1))) \o <<Ignore>>
        \o PySlice(PyIndex(sq, -1), 1, Len(PyIndex(sq, -1)))
LmLabelsShort(sq, ids, flag) ==
    IF flag
    THEN Repeat(Ignore, SumLen(PySlice(sq, 0, -1)))
            \o PySlice(PyIndex(sq, -1), 1, Len(PyIndex(sq, -1)))
    ELSE Repeat(Ignore, Len(ids))
LmLabels(sq, ids, flag) ==
    IF flag
    THEN Repeat(Ignore, SumLen(PySlice(sq, 0, -1))) \o <<Ignore>>
            \o PySlice(PyIndex(sq, -1), 1, Len(PyIndex(sq, -1)))
    ELSE Repeat(Ignore, Len(ids))

\* The three sequences of one dialogue's instance.
Instance(sq, b, s1, s2, flag) ==
    [input_ids |-> InputIds(sq),
     token_type_ids |-> TokenTypeIds(sq, b, s1, s2),
     lm_labels |-> LmLabels(sq, InputIds(sq), flag)]

\* assert len(input_ids) == len(token_type_ids) == len(lm_labels)
AssertLengths(inst) ==
    /\ Len(inst.input_ids) = Len(inst.token_type_ids)
    /\ Len(inst.token_type_ids) = Len(inst.lm_labels)

\* datasets = defaultdict(list); datasets[dataset_name].append(instance)
DefaultGet(dd, k) == IF k \in DOMAIN dd THEN dd[k] ELSE <<>>
DefaultPrepend(dd, k, x) ==
    [n \in DOMAIN dd \cup {k} |-> IF n = k THEN <<x>> \o DefaultGet(dd, k) ELSE dd[n]]
DefaultAppend(dd, k, x) ==
    [n \in DOMAIN dd \cup {k} |-> IF n = k THEN Append(DefaultGet(dd, k), x) ELSE dd[n]]

EmptyDict == [n \in {} |-> <<>>]
NoInstance == [input_ids |-> <<>>, token_type_ids |-> <<>>, lm_labels |-> <<>>]

-----------------------------------------------------------------------------
(* Inputs of data_process *)

TokenIds == {2, 7}
Splits == {"train", "valid"}

SeqsUpTo(S, n) == UNION {[1..k -> S] : k \in 0..n}

\* A response of up to MaxUttLen ids after a history of utterances of at
\* most one id.
Utterances == SeqsUpTo(TokenIds, MaxUttLen)
HistoryUtterances == SeqsUpTo(TokenIds, 1)
Dialogs ==
    {<<>>} \cup {h \o <<r>> : h \in SeqsUpTo(HistoryUtterances, MaxTurns - 1), r \in Utterances}

\* One dialogue of any shape in one split.
DeepData == {<<[name |-> "train", dialogs |-> <<d>>]>> : d \in Dialogs}

\* One or two splits of several short dialogues, in either insertion order.
ShortDialogs == {<<>>, <<<<7>>>>, <<<<7>>, <<2>>>>}
SplitValues == SeqsUpTo(ShortDialogs, MaxDialogs)
WideData ==
    {<<>>}
    \cup {<<[name |-> n, dialogs |-> v]>> : n \in Splits, v \in SplitValues}
    \cup {<<[name |-> n1, dialogs |-> v1], [name |-> n2, dialogs |-> v2]>> :
            <<n1, n2, v1, v2>> \in
              {q \in Splits \X Splits \X SplitValues \X SplitValues : q[1] # q[2]}}

InitProc ==
    /\ tokenizer \in Tokenizers
    /\ max_history \in 1..MaxHistory
    /\ with_eos \in BOOLEAN
    /\ lm_labels \in BOOLEAN
    /\ data \in DeepData \cup WideData
    /\ pc = "start"
    /\ di = 0 /\ dj = 0
    /\ bos = 0 /\ eos = 0 /\ speaker1 = 0 /\ speaker2 = 0
    /\ dialog = <<>> /\ history = <<>> /\ resposne = <<>> /\ sequence = <<>>
    /\ instance = NoInstance /\ bound = FALSE
    /\ datasets = EmptyDict
    /\ result = EmptyDict

\* The loader is idle while data_process is examined.
IdleLoad ==
    /\ rawfiles = <<>> /\ cachefiles = <<>> /\ call = <<>> /\ ret = <<>>

Init == InitProc /\ IdleLoad

\* bos, eos, speaker1, speaker2 = tokenizer.convert_tokens_to_ids(SPECIAL_TOKENS)
\* datasets = defaultdict(list)
Enter ==
    /\ pc = "start"
    /\ LET ids == ConvertTokensToIds(tokenizer, SPECIAL_TOKENS)
       IN  bos' = ids[1] /\ eos' = ids[2] /\ speaker1' = ids[3] /\ speaker2' = ids[4]
    /\ datasets' = EmptyDict
    /\ pc' = "loop"
    /\ UNCHANGED <<tokenizer, max_history, with_eos, lm_labels, data, di, dj,
                   dialog, history, resposne, sequence, instance, bound, result>>
    /\ UNCHANGED loadvars

InnerDone == IF di = 0 THEN TRUE ELSE dj = Len(data[di].dialogs)

\* for dataset_name, dataset in data.items(): the next split
NextDataset ==
    /\ pc = "loop" /\ InnerDone /\ di < Len(data)
    /\ di' = di + 1 /\ dj' = 0
    /\ UNCHANGED <<tokenizer, max_history, with_eos, lm_labels, data, pc,
                   bos, eos, speaker1, speaker2,
                   dialog, history, resposne, sequence, instance, bound,
                   datasets, result>>
    /\ UNCHANGED loadvars

\* for dialog in dataset: the body of the inner loop
ProcessDialog ==
    /\ pc = "loop" /\ di >= 1 /\ dj < Len(data[di].dialogs)
    /\ LET d == data[di].dialogs[dj + 1]
           h == History(d, max_history)
       IN  /\ dialog' = d
           /\ history' = h
           /\ IF ~IndexOk(d, -1)
              THEN /\ pc' = "IndexError"
                   /\ UNCHANGED <<resposne, sequence, instance, bound, datasets, dj>>
              ELSE LET r == PyIndex(d, -1)
                       sq == WithSpeakers(Turns(bos, eos, h, r, with_eos), speaker1, speaker2)
                       inst == Instance(sq, bos, speaker1, speaker2, lm_labels)
                   IN  /\ resposne' = r
                       /\ sequence' = sq
                       /\ instance' = inst
                       /\ bound' = TRUE
                       /\ IF ~AssertLengths(inst)
                          THEN pc' = "AssertionError" /\ UNCHANGED <<datasets, dj>>
                          ELSE /\ datasets' = DefaultAppend(datasets, data[di].name, inst)
                               /\ dj' = dj + 1
                               /\ pc' = "loop"
    /\ UNCHANGED <<tokenizer, max_history, with_eos, lm_labels, data, di,
                   bos, eos, speaker1, speaker2, result>>
    /\ UNCHANGED loadvars

\* return datasets
Return ==
    /\ pc = "loop" /\ InnerDone /\ di = Len(data)
    /\ pc' = "done"
    /\ result' = datasets
    /\ UNCHANGED <<tokenizer, max_history, with_eos, lm_labels, data, di, dj,
                   bos, eos, speaker1, speaker2,
                   dialog, history, resposne, sequence, instance, bound, datasets>>
    /\ UNCHANGED loadvars

Next == Enter \/ NextDataset \/ ProcessDialog \/ Return

Spec == Init /\ [][Next]_vars

-----------------------------------------------------------------------------
(* Properties of data_process.  The locals dialog, history, resposne,      *)
(* sequence and instance hold the last iteration of the inner loop, so a   *)
(* property of them in every reachable state is a property of every        *)
(* instance built.                                                         *)

TypeOK == pc \in {"start", "loop", "done", "IndexError", "AssertionError"}

\* An iteration has completed and no error has been raised since.
Built == pc \in {"loop", "done"} /\ bound

Last(s) == s[Len(s)]

\* The final turn's content: the response ids, then EOS when with_eos is set.
Content == Last(dialog) \o (IF with_eos THEN <<eos>> ELSE <<>>)

\* The turn of sq that holds position p of the flattened sequence.
RECURSIVE TurnAt(_, _)
TurnAt(sq, p) ==
    IF p <= Len(Head(sq)) THEN 1 ELSE 1 + TurnAt(Tail(sq), p - Len(Head(sq)))

SpecialsDistinct == Cardinality({bos, eos, speaker1, speaker2}) = 4

\* C1: for every dialogue of at least two utterances, whatever max_history,
\* with_eos and lm_labels are, the three sequences of the instance have the
\* same length and the assertion that ends instance building never fails.
C1_EqualLengths ==
    /\ pc # "AssertionError"
    /\ (Built /\ Len(dialog) >= 2) =>
          /\ Len(instance.input_ids) = Len(instance.token_type_ids)
          /\ Len(instance.input_ids) = Len(instance.lm_labels)

C1_Witness ==
    /\ Built /\ Len(dialog) = 3 /\ max_history = 1 /\ with_eos /\ lm_labels
    /\ Len(instance.lm_labels) = 7

\* C2: with lm_labels set, the labels are -1 at every position before the
\* final turn and at the final turn's speaker marker, and the trailing
\* positions carry the final turn's content ids (response, then EOS when
\* with_eos), in order and at the positions they have in input_ids.
C2_LabelsRevealResponse ==
    (Built /\ lm_labels) =>
        LET n == Len(instance.input_ids)
            k == Len(Content)
        IN  /\ Len(instance.lm_labels) = n
            /\ n >= k + 2
            /\ \A p \in 1..(n - k) : instance.lm_labels[p] = Ignore
            /\ instance.input_ids[n - k] = Head(Last(sequence))
            /\ \A j \in 1..k : /\ instance.lm_labels[n - k + j] = Content[j]
                               /\ instance.input_ids[n - k + j] = Content[j]

C2_Witness ==
    /\ Built /\ lm_labels /\ with_eos /\ tokenizer = BertFull
    /\ dialog = <<<<7>>, <<2>>, <<7, 2>>>> /\ max_history = 1
    /\ instance.lm_labels = <<-1, -1, -1, -1, 7, 2, 2>>

\* C3: the BOS turn is the bare BOS id, and turn i (counted from 0) after
\* it opens with speaker1 when i is even and speaker2 when i is odd,
\* followed by the turn's own ids, whatever max_history and the length of
\* the dialogue are.
C3_SpeakersAlternate ==
    Built =>
        /\ sequence[1] = <<bos>>
        /\ Len(sequence) = Len(history) + 2
        /\ \A t \in 2..Len(sequence) :
              /\ Head(sequence[t]) = (IF (t - 2) % 2 = 0 THEN speaker1 ELSE speaker2)
              /\ Tail(sequence[t]) = (IF t = Len(sequence) THEN Content ELSE history[t - 1])

C3_Witness ==
    /\ Built /\ tokenizer = BertFull /\ max_history = 2 /\ Len(dialog) = 3
    /\ Len(sequence) = 4
    /\ Head(sequence[2]) = 5 /\ Head(sequence[3]) = 6 /\ Head(sequence[4]) = 5

\* C4: with with_eos the last input id is the EOS id; without it, and with
\* four distinct special ids, the last input id is the EOS id only when the
\* response itself ends with that id.
C4_LastIdIsEos ==
    Built =>
        /\ with_eos => Last(instance.input_ids) = eos
        /\ (~with_eos /\ SpecialsDistinct /\ Last(instance.input_ids) = eos) =>
              (Last(dialog) # <<>> /\ Last(Last(dialog)) = eos)

C4_Witness ==
    /\ Built /\ ~with_eos /\ SpecialsDistinct
    /\ Last(dialog) = <<>> /\ Last(instance.input_ids) = speaker2

\* C5: with lm_labels unset the labels are the ignore marker at every
\* position and are as long as input_ids.
C5_AllIgnored ==
    (Built /\ ~lm_labels) =>
        /\ Len(instance.lm_labels) = Len(instance.input_ids)
        /\ \A p \in 1..Len(instance.lm_labels) : instance.lm_labels[p] = Ignore

C5_Witness ==
    /\ Built /\ ~lm_labels /\ Len(Last(dialog)) = 2
    /\ Len(instance.lm_labels) >= 4

\* C7: the response is the last utterance and the history is the
\* min(len(D) - 1, 2*max_history - 1) utterances right before it, in their
\* order; the sequence has 1 + min(len(D), 2*max_history) turns.
C7_HistoryWindow ==
    Built =>
        LET n == Len(dialog)
            w == Min(n - 1, 2 * max_history - 1)
        IN  /\ n >= 1
            /\ resposne = dialog[n]
            /\ Len(history) = w
            /\ \A j \in 1..w : history[j] = dialog[n - 1 - w + j]
            /\ Len(sequence) = 1 + Min(n, 2 * max_history)

C7_Witness ==
    /\ Built /\ max_history = 1
    /\ dialog = <<<<7>>, <<2>>, <<7, 7>>>>
    /\ history = <<<<2>>>>

\* C8: token_type_ids starts with the BOS id, as input_ids does, and at
\* every later position holds the speaker marker that opens the turn the
\* position lies in.
C8_TokenTypes ==
    Built =>
        /\ Len(instance.token_type_ids) = Len(instance.input_ids)
        /\ instance.token_type_ids[1] = bos
        /\ instance.input_ids[1] = bos
        /\ \A p \in 2..Len(instance.input_ids) :
              LET t == TurnAt(sequence, p)
              IN  /\ t >= 2
                  /\ instance.token_type_ids[p] = Head(sequence[t])
                  /\ instance.token_type_ids[p] =
                        (IF (t - 2) % 2 = 0 THEN speaker1 ELSE speaker2)

C8_Witness ==
    /\ Built /\ tokenizer = BertFull /\ with_eos /\ max_history = 1
    /\ dialog = <<<<7>>, <<2>>, <<7, 2>>>>
    /\ instance.token_type_ids = <<1, 5, 5, 6, 6, 6, 6>>

\* The instance data_process is to build from dialogue d.
ExpectedInstance(d) ==
    Instance(WithSpeakers(Turns(bos, eos, History(d, max_history), PyIndex(d, -1), with_eos),
                          speaker1, speaker2),
             bos, speaker1, speaker2, lm_labels)

InOrder(insts, ds) ==
    /\ Len(insts) = Len(ds)
    /\ \A i \in 1..Len(ds) : insts[i] = ExpectedInstance(ds[i])

Names == {data[k].name : k \in 1..Len(data)}
NonEmptyNames == {data[k].name : k \in {j \in 1..Len(data) : data[j].dialogs # <<>>}}

\* C9, as stated: the returned mapping has an entry for every split of the
\* input and for no other name, with one instance per dialogue in order.
C9_EntryForEverySplit ==
    pc = "done" =>
        /\ DOMAIN result = Names
        /\ \A k \in 1..Len(data) :
              data[k].name \in DOMAIN result /\ InOrder(result[data[k].name], data[k].dialogs)

\* C9, amended: the returned mapping has an entry exactly for the splits
\* that contain a dialogue, with one instance per dialogue in order; a
\* split without dialogues has no entry, and is an empty sequence only
\* through the default of the mapping.
C9_EntryForNonEmptySplits ==
    pc = "done" =>
        /\ DOMAIN result = NonEmptyNames
        /\ \A k \in 1..Len(data) : InOrder(DefaultGet(result, data[k].name), data[k].dialogs)

C9_Witness ==
    /\ pc = "done" /\ Len(data) = 2
    /\ data[1].dialogs = <<>> /\ Len(data[2].dialogs) = 2
    /\ data[2].dialogs[1] # data[2].dialogs[2]
    /\ DOMAIN result = {data[2].name}

\* C10: the only failure is the IndexError of a dialogue without
\* utterances, after which nothing is returned; every dialogue that has an
\* utterance, however short and whatever its response, gives an instance
\* of three equally long sequences that is appended to its split.
C10_FailsOnlyOnEmptyDialogue ==
    /\ pc # "AssertionError"
    /\ pc = "IndexError" => (dialog = <<>> /\ result = EmptyDict)
    /\ Built =>
          /\ Len(dialog) >= 1
          /\ AssertLengths(instance)
          /\ \E k \in 1..di : /\ data[k].name \in DOMAIN datasets
                             /\ Last(datasets[data[k].name]) = instance
    /\ (pc = "loop" /\ di >= 1) =>
          \A i \in 1..dj : data[di].dialogs[i] # <<>>

C10_Witness ==
    /\ pc = "IndexError" /\ bound /\ datasets # EmptyDict

C10_WitnessShort ==
    /\ Built /\ Len(dialog) = 1 /\ resposne = <<>> /\ max_history = 2
-----------------------------------------------------------------------------
(* get_data and the files it reads and writes *)

SMALCleanWB_URL == ""

Chars == {"a", " "}
RawUtterances == SeqsUpTo(Chars, MaxStrLen)

\* The JSON objects a raw dataset file may hold: {} or one split of one
\* dialogue of one utterance.
RawDatasets ==
    {<<>>} \cup {<<[name |-> "train", dialogs |-> <<<<u>>>>]>> : u \in RawUtterances}

\* A file is missing, malformed (json.loads raises) or holds a dataset.
MissingFile == [kind |-> "missing", content |-> <<>>]
MalformedFile == [kind |-> "malformed", content |-> <<>>]
DataFile(d) == [kind |-> "data", content |-> d]
RawFiles == {MissingFile, MalformedFile} \cup {DataFile(d) : d \in RawDatasets}

RawPaths == {"p"}
DatasetPaths == {"", "p"}
DatasetCaches == {"", "c"}

\* dataset_cache = dataset_cache + '_' + type(tokenizer).__name__
CacheKey(dataset_cache, tok) == dataset_cache \o "_" \o tok.type
CacheKeys == {CacheKey(c, t) : c \in DatasetCaches, t \in Tokenizers}

\* os.path.isfile(dataset_cache)
IsFileNever(fs, k) == FALSE
IsFile(fs, k) == k \in DOMAIN fs /\ fs[k].kind # "missing"

\* cached_path(dataset_path) and json.loads(f.read()) succeed
CanLoad(fs, path) == path \in DOMAIN fs /\ fs[path].kind = "data"

\* tokenize(obj): str -> ids, dict -> dict, any other iterable -> list
TokenizeStr(tok, text) == ConvertTokensToIds(tok, TokenizeText(text))
TokenizeList(tok, l) == [j \in 1..Len(l) |-> TokenizeStr(tok, l[j])]
TokenizeLists(tok, ll) == [i \in 1..Len(ll) |-> TokenizeList(tok, ll[i])]
TokenizeDataset(tok, d) ==
    [k \in 1..Len(d) |-> [name |-> d[k].name, dialogs |-> TokenizeLists(tok, d[k].dialogs)]]

\* samples = [{k: v[:5]} for k, v in dataset.items()]
Samples(d) == [k \in 1..Len(d) |-> [name |-> d[k].name, dialogs |-> PySlice(d[k].dialogs, 0, 5)]]

None == [none |-> TRUE, val |-> <<>>]
Some(v) == [none |-> FALSE, val |-> v]

NoCall == [tokenizer |-> BertFull, dataset_path |-> "", dataset_cache |-> "",
           resolved |-> FALSE, tokenized |-> FALSE, outcome |-> "none"]
NoRet == [dataset |-> <<>>, samples |-> None]

\* data_process is idle while the loader is examined.
IdleProc ==
    /\ tokenizer = BertFull /\ max_history = 1 /\ with_eos = TRUE /\ lm_labels = TRUE
    /\ data = <<>> /\ pc = "start" /\ di = 0 /\ dj = 0
    /\ bos = 0 /\ eos = 0 /\ speaker1 = 0 /\ speaker2 = 0
    /\ dialog = <<>> /\ history = <<>> /\ resposne = <<>> /\ sequence = <<>>
    /\ instance = NoInstance /\ bound = FALSE
    /\ datasets = EmptyDict /\ result = EmptyDict

InitLoad ==
    /\ IdleProc
    /\ rawfiles \in [RawPaths -> RawFiles]
    /\ cachefiles = [k \in CacheKeys |-> MissingFile]
    /\ call = NoCall
    /\ ret = NoRet

\* get_data(tokenizer, dataset_path, dataset_cache)
GetData(tok, dataset_path, dataset_cache) ==
    LET path == IF dataset_path # "" THEN dataset_path ELSE SMALCleanWB_URL
        key == CacheKey(dataset_cache, tok)
        this == [tokenizer |-> tok, dataset_path |-> dataset_path,
                 dataset_cache |-> dataset_cache]
    IN  /\ IF key # "" /\ IsFile(cachefiles, key)
           THEN \* torch.load(dataset_cache); samples = None
                /\ ret' = [dataset |-> cachefiles[key].content, samples |-> None]
                /\ call' = this @@ [resolved |-> FALSE, tokenized |-> FALSE,
                                    outcome |-> "returned"]
                /\ UNCHANGED cachefiles
           ELSE IF ~CanLoad(rawfiles, path)
           THEN \* cached_path or json.loads raises; nothing is tokenized or saved
                /\ ret' = NoRet
                /\ call' = this @@ [resolved |-> TRUE, tokenized |-> FALSE,
                                    outcome |-> "raised"]
                /\ UNCHANGED cachefiles
           ELSE LET dataset == rawfiles[path].content
                    tokenized == TokenizeDataset(tok, dataset)
                IN  /\ ret' = [dataset |-> tokenized, samples |-> Some(Samples(dataset))]
                    /\ call' = this @@ [resolved |-> TRUE, tokenized |-> TRUE,
                                        outcome |-> "returned"]
                    \* torch.save(dataset, dataset_cache)
                    /\ cachefiles' = [cachefiles EXCEPT ![key] = DataFile(tokenized)]
        /\ UNCHANGED rawfiles
        /\ UNCHANGED procvars

\* Between two calls the raw dataset file is replaced, removed or created.
WriteRaw ==
    /\ \E path \in RawPaths, f \in RawFiles :
          /\ rawfiles[path] # f
          /\ rawfiles' = [rawfiles EXCEPT ![path] = f]
    /\ UNCHANGED <<cachefiles, call, ret>>
    /\ UNCHANGED procvars

Call == \E tok \in Tokenizers, dataset_path \in DatasetPaths, dataset_cache \in DatasetCaches :
            GetData(tok, dataset_path, dataset_cache)

NextLoad == Call \/ WriteRaw

SpecLoad == InitLoad /\ [][NextLoad]_vars

LoadTypeOK == call.outcome \in {"none", "returned", "raised"}

\* C6: a call that finds a file at its cache key returns the file's content
\* with samples None and neither resolves dataset_path nor tokenizes,
\* whatever dataset_path and the raw file are by then; a call that finds no
\* file and returns has resolved and tokenized the raw dataset and has
\* written what it returns to the cache key; a call that raises writes
\* nothing; no step rewrites or removes a cache file that exists.
C6_CacheTrusted ==
    [][ /\ \A k \in CacheKeys :
              cachefiles[k].kind # "missing" => cachefiles'[k] = cachefiles[k]
        /\ rawfiles' = rawfiles =>
              LET tok == call'.tokenizer
                  key == call'.dataset_cache \o "_" \o tok.type
                  path == call'.dataset_path
              IN  IF cachefiles[key].kind # "missing"
                  THEN /\ call'.outcome = "returned"
                       /\ ret'.dataset = cachefiles[key].content
                       /\ ret'.samples = None
                       /\ ~call'.resolved /\ ~call'.tokenized
                       /\ cachefiles' = cachefiles
                  ELSE \/ /\ call'.outcome = "raised"
                          /\ cachefiles' = cachefiles
                       \/ /\ call'.outcome = "returned"
                          /\ call'.resolved /\ call'.tokenized
                          /\ path \in RawPaths /\ rawfiles[path].kind = "data"
                          /\ ret'.dataset = TokenizeDataset(tok, rawfiles[path].content)
                          /\ ~ret'.samples.none
                          /\ cachefiles'[key] = DataFile(ret'.dataset)
                          /\ \A k \in CacheKeys \ {key} : cachefiles'[k] = cachefiles[k]
      ]_vars

\* A later call is served from a cache that no longer matches the raw file,
\* with a dataset_path that could not have been resolved.
C6_Witness ==
    /\ call.outcome = "returned" /\ ret.samples = None
    /\ call.dataset_path = ""
    /\ rawfiles["p"].kind = "data"
    /\ ret.dataset # TokenizeDataset(call.tokenizer, rawfiles["p"].content)
    /\ ret.dataset # <<>>
====
